---- MODULE Spec2Model ----
(***************************************************************************)
(* State-machine model of the stock dashboard client:                      *)
(*   - AddStockForm   (src/src/components/AddStockFrom.tsx)                *)
(*   - PortfolioTable (src/src/components/LoginLogoutButton.tsx, l. 47 ff) *)
(*                                                                         *)
(* Representation.                                                         *)
(*   strings   : sequences of one-character strings; "" is << >>.          *)
(*   null      : companyName is either null or a nonempty string (l. 39),  *)
(*               so null is written << >>; tickerValidated is the string   *)
(*               "null", "true" or "false".                                *)
(*   numbers   : form prices are in cents, FX rates in hundredths, prices  *)
(*               kept by the store and close prices in 1/10000 of a unit,  *)
(*               so that the product price * rate is exact.                *)
(*   time      : a pending setTimeout or network call completes at a       *)
(*               nondeterministic later step.                              *)
(***************************************************************************)
EXTENDS Integers, Sequences, FiniteSets, Bags, TLC

\* ------------------------------------------------------------------------
\* Bounds of the model
\* ------------------------------------------------------------------------
\* checkTickerAndName calls that may be awaiting their response at once
MaxLookups == 2
\* fetchPortfolio runs started in one behaviour (the mount run included)
MaxRefreshes == 2
\* rows the store may hold
MaxRows == 2
\* fetchExchangeRate requests that may be awaiting their response at once
MaxFxFetches == 2
\* update calls of the edit form that may be awaiting their response at once
MaxUpdates == 1

\* ------------------------------------------------------------------------
\* Input domains
\* ------------------------------------------------------------------------
EmptyStr == << >>
NoName == << >>
\* values the user types into the ticker field
FormTickers == { << >>, <<"a">>, <<"A">>, <<"B">> }
\* symbols the market data API may name in a response
ApiSymbols == { <<"A">>, <<"B">> }
\* company names the API may return ("" stands for a missing name)
ApiNames == { << >>, <<"N">> }
\* values of the quantity and price inputs (price in cents)
FormQuantities == { 0, 1 }
FormPrices == { 150, 10000 }
Currencies == { "USD", "EUR" }
\* FX close rates the API may return, in hundredths
ApiRates == { 92 }
\* close prices the API may return, in 1/10000
ApiCloses == { 0, 1500000 }
\* supportedCurrencies (line 263)
SupportedCurrencies == { "USD", "EUR", "GBP" }
\* close rates the API may return for a currency pair, in hundredths
FxCloses == { 92 }

\* ------------------------------------------------------------------------
\* Strings
\* ------------------------------------------------------------------------
\* String.prototype.toUpperCase on one character of the model's alphabet
UpperChar(c) == CASE c = "a" -> "A"
                  [] c = "b" -> "B"
                  [] OTHER -> c

toUpperCase(s) == [i \in DOMAIN s |-> UpperChar(s[i])]

\* code units of the model's alphabet, for the store's ORDER BY ticker
CharCode(c) == CASE c = "A" -> 65
                 [] c = "B" -> 66
                 [] c = "N" -> 78
                 [] c = "a" -> 97
                 [] c = "b" -> 98
                 [] OTHER -> 0

RECURSIVE StrLess(_, _)
StrLess(s, t) ==
    IF t = << >> THEN FALSE
    ELSE IF s = << >> THEN TRUE
    ELSE IF CharCode(Head(s)) # CharCode(Head(t))
         THEN CharCode(Head(s)) < CharCode(Head(t))
         ELSE StrLess(Tail(s), Tail(t))

\* ------------------------------------------------------------------------
\* Market data API: ticker details lookup
\* ------------------------------------------------------------------------
\* What fetch + response.json() can produce for the ticker details endpoint:
\*   kind "neterr"  fetch rejects,
\*   kind "badjson" response.json() rejects or yields null,
\*   kind "json"    an object with status and (optionally) results.
LookupResponses ==
    { [kind |-> "neterr", status |-> "", hasResults |-> FALSE,
       ticker |-> << >>, name |-> << >>],
      [kind |-> "badjson", status |-> "", hasResults |-> FALSE,
       ticker |-> << >>, name |-> << >>] }
    \cup { [kind |-> "json", status |-> st, hasResults |-> FALSE,
            ticker |-> << >>, name |-> << >>] : st \in {"OK", "NOT_FOUND"} }
    \cup { [kind |-> "json", status |-> st, hasResults |-> TRUE,
            ticker |-> t, name |-> n] :
              st \in {"OK", "NOT_FOUND"}, t \in ApiSymbols, n \in ApiNames }

\* the result object of checkTickerAndName; threw marks an exception that
\* escapes the function
LookupResult(e, n, th) == [exists |-> e, name |-> n, threw |-> th]

\* (variant of TickerMatches: compares with the input as typed)
TickerMatchesExact(ticker, resp) ==
    /\ resp.status = "OK"
    /\ resp.hasResults
    /\ resp.ticker = ticker

\* the condition of line 36 on a parsed response
TickerMatches(ticker, resp) ==
    /\ resp.status = "OK"
    /\ resp.hasResults
    /\ resp.ticker = toUpperCase(ticker)

\* the try block (lines 30-43): fetch or response.json() rejecting, or
\* reading data.status of null, throws
TryLookup(ticker, resp) ==
    IF resp.kind # "json" THEN LookupResult(FALSE, NoName, TRUE)
    ELSE IF TickerMatches(ticker, resp)
         THEN LookupResult(TRUE,
                           IF resp.name # << >> THEN resp.name
                                                ELSE toUpperCase(ticker),
                           FALSE)
         ELSE LookupResult(FALSE, NoName, FALSE)

\* (variant of CatchLookup: the exception escapes)
CatchLookupRethrows(r) == r

\* the catch block (lines 45-49)
CatchLookup(r) == IF r.threw THEN LookupResult(FALSE, NoName, FALSE) ELSE r

checkTickerAndName(ticker, key, resp) ==
    IF ticker = EmptyStr \/ ~key THEN LookupResult(FALSE, NoName, FALSE)
    ELSE CatchLookup(TryLookup(ticker, resp))

\* ------------------------------------------------------------------------
\* Market data API: EUR -> USD rate of the add form
\* ------------------------------------------------------------------------
\* 1.08, in hundredths
FallbackRate == 108

\* kind "neterr" | "badjson" | "json"; a json response has a status, a
\* results array that may be missing or empty, and a close value that may
\* not be a number
RateResponses ==
    { [kind |-> "neterr", status |-> "", hasResults |-> FALSE,
       numeric |-> FALSE, c |-> 0],
      [kind |-> "json", status |-> "ERROR", hasResults |-> TRUE,
       numeric |-> TRUE, c |-> 125],
      [kind |-> "json", status |-> "OK", hasResults |-> FALSE,
       numeric |-> FALSE, c |-> 0],
      [kind |-> "json", status |-> "OK", hasResults |-> TRUE,
       numeric |-> FALSE, c |-> 0] }
    \cup { [kind |-> "json", status |-> "OK", hasResults |-> TRUE,
            numeric |-> TRUE, c |-> r] : r \in ApiRates }

fetchEuroToUsdRate(key, resp) ==
    IF ~key THEN FallbackRate
    ELSE IF resp.kind # "json" THEN FallbackRate
    ELSE IF resp.status = "OK" /\ resp.hasResults
         THEN (IF resp.numeric THEN resp.c ELSE FallbackRate)
         ELSE FallbackRate

\* 1.0, in hundredths: a price multiplied by it is the same amount
RateOne == 100

\* ------------------------------------------------------------------------
\* State
\* ------------------------------------------------------------------------
VARIABLES
    \* environment
    apiKey,            \* NEXT_PUBLIC_POLYGON_API_KEY is set
    store,             \* rows of table portfolios, in insertion order
    nextId,            \* next row id the store hands out
    \* AddStockForm
    open,              \* useState open
    tickerValidated,   \* useState tickerValidated: "null" | "true" | "false"
    checkedFor,        \* history: the ticker of the lookup whose result
                       \* tickerValidated holds, "" when it is null
    companyName,       \* useState companyName (NoName = null)
    isChecking,        \* useState isChecking
    form,              \* react-hook-form values
    tickerError,       \* error of field ticker: "none" or its kind
    timers,            \* pending debounce setTimeouts
    effectTimer,       \* timer id held by the effect's cleanup, 0 if none
    lookups,           \* checkTickerAndName calls awaiting their response
    sub,               \* position of the running onSubmit
    alertMsg,          \* the window.alert raised by the last step
    burst,             \* history: lookups issued since the current run of
                       \* ticker edits began
    settled,           \* history: the lookup call that settled in the last
                       \* step and the response it got
    \* PortfolioTable
    holdings,          \* useState holdings (displayed rows)
    loading,           \* useState loading
    refreshes,         \* running fetchPortfolio calls
    started,           \* number of fetchPortfolio calls so far
    priceReqs,         \* previous-close requests awaiting their response
    deletes,           \* deleteHolding calls awaiting their response
    done,              \* history: the last completed fetchStockPrices call
    declined,          \* history: how many times window.confirm of
                       \* handleDelete was answered with no, modulo 2
    currency,          \* useState currency
    exchangeRate,      \* useState exchangeRate, in hundredths
    fxReqs,            \* fetchExchangeRate requests awaiting their response
    rateOf,            \* history: the currency for which exchangeRate
                       \* was obtained
    isEditDialogOpen,  \* useState isEditDialogOpen
    editingHolding,    \* useState editingHolding (NoHolding = null)
    data,              \* EditHoldingForm useState data
    isSubmitting,      \* EditHoldingForm useState isSubmitting
    updates,           \* update calls of handleSave awaiting their response
    \* pure-function harness
    fnIn, fnOut

formVars == << open, tickerValidated, checkedFor, companyName, isChecking,
               form,
               tickerError, timers, effectTimer, lookups, sub, burst >>
tableVars == << holdings, loading, refreshes, started, priceReqs, deletes,
                done >>
envVars == << apiKey, store, nextId >>
fnVars == << fnIn, fnOut >>
currencyVars == << currency, exchangeRate, fxReqs, rateOf >>
editVars == << isEditDialogOpen, editingHolding, data, isSubmitting, updates,
               declined >>
vars == << apiKey, store, nextId, open, tickerValidated, checkedFor,
           companyName,
           isChecking, form, tickerError, timers, effectTimer, lookups, sub,
           alertMsg, burst, settled, holdings, loading, refreshes, started,
           priceReqs, deletes, done, fnIn, fnOut, declined, currency, exchangeRate,
           fxReqs, rateOf, isEditDialogOpen, editingHolding, data,
           isSubmitting, updates >>

\* defaultValues of useForm (lines 102-108)
DefaultValues == [ticker |-> EmptyStr, quantity |-> 1,
                  purchase_price |-> 10000, purchase_currency |-> "USD"]

\* No onSubmit is running.  A running one has its position pc, the values
\* it was called with and usdPrice; history: rateCalled says that
\* fetchEuroToUsdRate was called and resp is the response its request got
NoResp == [kind |-> "none", status |-> "", hasResults |-> FALSE,
           numeric |-> FALSE, c |-> 0]
NoSub == [pc |-> "idle", values |-> DefaultValues, usdPrice |-> 0,
          rateCalled |-> FALSE, resp |-> NoResp]
\* editingHolding is null; the state of an EditHoldingForm that is not
\* mounted
NoHolding == [id |-> 0, ticker |-> EmptyStr]
NoData == [quantity |-> 0, purchase_price |-> 0]

\* No run of ticker edits is under way.  A run has its number of edits
\* (counted up to 2), the number of lookup calls since it began (up to 2),
\* the ticker of the last call, and whether the check button was clicked
NoBurst == [active |-> FALSE, edits |-> 0, calls |-> 0, clicked |-> FALSE,
            last |-> EmptyStr]
NoSettled == [ticker |-> EmptyStr,
              resp |-> [kind |-> "none", status |-> "", hasResults |-> FALSE,
                        ticker |-> << >>, name |-> << >>]]

\* (variant of Truthy: only an explicit false counts as not validated)
TruthyOrNull(v) == v # "false"

\* JavaScript truthiness of the nullable boolean tickerValidated
Truthy(v) == v = "true"

\* formSchema (lines 84-90) accepts the values
SchemaValid(v) ==
    /\ Len(v.ticker) >= 1
    /\ v.quantity >= 1
    /\ v.purchase_price >= 1
    /\ v.purchase_currency \in {"USD", "EUR"}

\* formSchema's output: ticker is upper-cased
SchemaParse(v) == [v EXCEPT !.ticker = toUpperCase(v.ticker)]

\* smallest positive handle not used by S
FreeId(S) == CHOOSE i \in 1..(Cardinality(S) + 1) :
                 \A x \in S : x.id # i

\* (variant of clearTimeout: the effect returns no cleanup)
clearTimeoutLost(ts, id) == ts

\* clearTimeout(id)
clearTimeout(ts, id) == { t \in ts : t.id # id }

Min(a, b) == IF a < b THEN a ELSE b

\* ------------------------------------------------------------------------
\* AddStockForm: ticker validation
\* ------------------------------------------------------------------------
\* A debounce timer: its handle, the tickerValue its callback closes over,
\* and (history) whether the check button was clicked while it was pending
Timer(id, ticker) == [id |-> id, ticker |-> ticker, clicked |-> FALSE]

\* An awaited checkTickerAndName(ticker); preempted is history: the call
\* came from a debounce timer that was pending when the check button was
\* clicked.  lookups is the bag of these calls.
Lookup(ticker, pre) == [ticker |-> ticker, preempted |-> pre]

\* the burst history after one more lookup call for ticker t
Called(b, t, byClick) ==
    [b EXCEPT !.calls = Min(@ + 1, 2), !.last = t,
              !.clicked = @ \/ byClick]

\* onOpenChange={setOpen}
OpenDialog ==
    /\ settled' = NoSettled
    /\ ~open
    /\ open' = TRUE
    /\ UNCHANGED << tickerValidated, checkedFor, companyName, isChecking, form,
                    tickerError, timers, effectTimer, lookups, sub, burst >>
    /\ alertMsg' = "none"
    /\ UNCHANGED << tableVars, envVars, fnVars, currencyVars,
                    editVars >>

CloseDialog ==
    /\ settled' = NoSettled
    /\ open
    /\ open' = FALSE
    /\ UNCHANGED << tickerValidated, checkedFor, companyName, isChecking, form,
                    tickerError, timers, effectTimer, lookups, sub, burst >>
    /\ alertMsg' = "none"
    /\ UNCHANGED << tableVars, envVars, fnVars, currencyVars,
                    editVars >>

\* (variant of ClearCheck: the field error is left in place)
ClearCheckKeepsError ==
    /\ tickerValidated' = "null"
    /\ checkedFor' = EmptyStr
    /\ companyName' = NoName
    /\ UNCHANGED tickerError

\* performTickerCheck("") (lines 115-120)
ClearCheck ==
    /\ tickerValidated' = "null"
    /\ checkedFor' = EmptyStr
    /\ companyName' = NoName
    /\ tickerError' = "none"

\* The user changes the ticker input to v.  watch("ticker") re-renders and
\* the effect of lines 139-148 runs: the previous effect's cleanup, then
\* either a new timer or performTickerCheck("") (lines 115-120).
EditTicker(v) ==
    /\ settled' = NoSettled
    /\ open
    /\ v # form.ticker
    /\ form' = [form EXCEPT !.ticker = v]
    /\ LET cleared == clearTimeout(timers, effectTimer) IN
       IF Len(v) > 0
       THEN /\ timers' = cleared \cup { Timer(FreeId(cleared), v) }
            /\ effectTimer' = FreeId(cleared)
            /\ burst' = IF timers = {}
                        THEN [NoBurst EXCEPT !.active = TRUE, !.edits = 1]
                        ELSE [burst EXCEPT !.edits = Min(@ + 1, 2)]
            /\ UNCHANGED << tickerValidated, checkedFor, companyName,
                            tickerError >>
       ELSE /\ timers' = cleared
            /\ effectTimer' = 0
            /\ ClearCheck
            /\ burst' = NoBurst
    /\ UNCHANGED << open, isChecking, lookups, sub >>
    /\ alertMsg' = "none"
    /\ UNCHANGED << tableVars, envVars, fnVars, currencyVars,
                    editVars >>

\* The other inputs of the form
EditQuantity(q) ==
    /\ settled' = NoSettled
    /\ open
    /\ q # form.quantity
    /\ form' = [form EXCEPT !.quantity = q]
    /\ UNCHANGED << open, tickerValidated, checkedFor, companyName, isChecking,
                    tickerError, timers, effectTimer, lookups, sub, burst >>
    /\ alertMsg' = "none"
    /\ UNCHANGED << tableVars, envVars, fnVars, currencyVars,
                    editVars >>

EditPrice(p) ==
    /\ settled' = NoSettled
    /\ open
    /\ p # form.purchase_price
    /\ form' = [form EXCEPT !.purchase_price = p]
    /\ UNCHANGED << open, tickerValidated, checkedFor, companyName, isChecking,
                    tickerError, timers, effectTimer, lookups, sub, burst >>
    /\ alertMsg' = "none"
    /\ UNCHANGED << tableVars, envVars, fnVars, currencyVars,
                    editVars >>

EditCurrency(c) ==
    /\ settled' = NoSettled
    /\ open
    /\ c # form.purchase_currency
    /\ form' = [form EXCEPT !.purchase_currency = c]
    /\ UNCHANGED << open, tickerValidated, checkedFor, companyName, isChecking,
                    tickerError, timers, effectTimer, lookups, sub, burst >>
    /\ alertMsg' = "none"
    /\ UNCHANGED << tableVars, envVars, fnVars, currencyVars,
                    editVars >>

\* The 1000 ms timeout of line 141 fires: performTickerCheck(tickerValue)
\* with the value of the render that scheduled it, up to the await of
\* line 123.
TimerFire(t) ==
    /\ settled' = NoSettled
    /\ t \in timers
    /\ BagCardinality(lookups) < MaxLookups
    /\ timers' = timers \ {t}
    /\ isChecking' = TRUE
    /\ lookups' = lookups (+) SetToBag({ Lookup(t.ticker, t.clicked) })
    /\ burst' = Called(burst, t.ticker, FALSE)
    /\ UNCHANGED << open, tickerValidated, checkedFor, companyName, form,
                    tickerError,
                    effectTimer, sub >>
    /\ alertMsg' = "none"
    /\ UNCHANGED << tableVars, envVars, fnVars, currencyVars,
                    editVars >>

\* handleCheckClick (lines 152-160); the button is disabled while isChecking
\* (line 250)
CheckClick ==
    /\ settled' = NoSettled
    /\ open
    /\ ~isChecking
    /\ IF form.ticker = EmptyStr
       THEN /\ tickerError' = "enter_first"
            /\ UNCHANGED << isChecking, lookups, timers, burst >>
       ELSE /\ BagCardinality(lookups) < MaxLookups
            /\ isChecking' = TRUE
            /\ lookups' = lookups (+) SetToBag({ Lookup(form.ticker, FALSE) })
            /\ timers' = { [t EXCEPT !.clicked = TRUE] : t \in timers }
            /\ burst' = Called(burst, form.ticker, TRUE)
            /\ UNCHANGED tickerError
    /\ UNCHANGED << open, tickerValidated, checkedFor, companyName, form,
                    effectTimer,
                    sub >>
    /\ alertMsg' = "none"
    /\ UNCHANGED << tableVars, envVars, fnVars, currencyVars,
                    editVars >>

\* checkTickerAndName settles and performTickerCheck resumes (lines 124-134).
\* If the call rejected, nothing after the await runs.
LookupReturn(l, resp) ==
    /\ settled' = [ticker |-> l.ticker, resp |-> resp]
    /\ BagIn(l, lookups)
    /\ lookups' = lookups (-) SetToBag({l})
    /\ LET r == checkTickerAndName(l.ticker, apiKey, resp) IN
       IF r.threw
       THEN UNCHANGED << isChecking, tickerValidated, checkedFor, companyName,
                         tickerError >>
       ELSE /\ isChecking' = FALSE
            /\ tickerValidated' = IF r.exists THEN "true" ELSE "false"
            /\ checkedFor' = l.ticker
            /\ companyName' = IF r.exists THEN r.name ELSE NoName
            /\ tickerError' = IF r.exists THEN "none" ELSE "not_found"
    /\ UNCHANGED << open, form, timers, effectTimer, sub, burst >>
    /\ alertMsg' = "none"
    /\ UNCHANGED << tableVars, envVars, fnVars, currencyVars,
                    editVars >>

\* ------------------------------------------------------------------------
\* PortfolioTable: fetchPortfolio and fetchStockPrices
\* ------------------------------------------------------------------------
\* What fetch + response.json() can produce for a previous-close request
PriceResponses ==
    { [kind |-> "neterr", hasResults |-> FALSE, numeric |-> FALSE, c |-> 0],
      [kind |-> "json", hasResults |-> FALSE, numeric |-> FALSE, c |-> 0],
      [kind |-> "json", hasResults |-> TRUE, numeric |-> FALSE, c |-> 0] }
    \cup { [kind |-> "json", hasResults |-> TRUE, numeric |-> TRUE,
            c |-> p] : p \in ApiCloses }

\* the value stored in prices[ticker] by one loop iteration (lines 101-124)
ClosePrice(resp) ==
    IF resp.kind # "json" THEN 0
    ELSE IF resp.hasResults
         THEN (IF resp.numeric THEN resp.c ELSE 0)
         ELSE 0

\* (variant of ZeroPrices: an empty object is returned)
NoPrices(tickers) == << >>

\* Object.fromEntries(tickers.map(ticker => [ticker, 0])) (line 96)
ZeroPrices(tickers) ==
    [t \in { tickers[i] : i \in DOMAIN tickers } |-> 0]

\* prices[ticker] = v
SetPrice(prices, ticker, v) ==
    [t \in (DOMAIN prices) \cup {ticker} |->
        IF t = ticker THEN v ELSE prices[t]]

\* .order("ticker", { ascending: true }): stable insertion sort
RECURSIVE InsertSorted(_, _)
InsertSorted(row, rows) ==
    IF rows = << >> THEN << row >>
    ELSE IF StrLess(row.ticker, Head(rows).ticker)
         THEN << row >> \o rows
         ELSE << Head(rows) >> \o InsertSorted(row, Tail(rows))

RECURSIVE OrderByTicker(_)
OrderByTicker(rows) ==
    IF rows = << >> THEN << >>
    ELSE InsertSorted(rows[Len(rows)],
                      OrderByTicker(SubSeq(rows, 1, Len(rows) - 1)))

\* Array.from(new Set(portfolio.map(h => h.ticker))) (line 293): the
\* tickers in order of first occurrence
RECURSIVE Dedupe(_)
Dedupe(ts) ==
    IF ts = << >> THEN << >>
    ELSE LET init == Dedupe(SubSeq(ts, 1, Len(ts) - 1))
             last == ts[Len(ts)]
         IN IF \E i \in DOMAIN init : init[i] = last
            THEN init
            ELSE Append(init, last)

\* (variant of uniqueTickers: one entry per row)
allTickers(portfolio) ==
    [i \in DOMAIN portfolio |-> portfolio[i].ticker]

uniqueTickers(portfolio) ==
    Dedupe([i \in DOMAIN portfolio |-> portfolio[i].ticker])

\* prices[item.ticker] || 0
PriceFor(prices, ticker) ==
    IF ticker \in DOMAIN prices THEN prices[ticker] ELSE 0

\* (variant of DisplayItem: the percentage is computed without the guard on
\* a zero cost basis, so a zero denominator is kept)
DisplayItemUnguarded(item, prices) ==
    LET currentPrice == PriceFor(prices, item.ticker)
        costBasis == item.quantity * item.purchase_price
        marketValue == item.quantity * currentPrice
        gainLoss == marketValue - costBasis
    IN [id |-> item.id, ticker |-> item.ticker,
        quantity |-> item.quantity,
        purchase_price |-> item.purchase_price,
        current_price |-> currentPrice,
        cost_basis |-> costBasis,
        market_value |-> marketValue,
        gain_loss |-> gainLoss,
        gain_loss_percent |-> [num |-> gainLoss * 100, den |-> costBasis]]

\* one DisplayItem (lines 299-314); gain_loss_percent is the fraction
\* num / den
DisplayItem(item, prices) ==
    LET currentPrice == PriceFor(prices, item.ticker)
        costBasis == item.quantity * item.purchase_price
        marketValue == item.quantity * currentPrice
        gainLoss == marketValue - costBasis
    IN [id |-> item.id, ticker |-> item.ticker,
        quantity |-> item.quantity,
        purchase_price |-> item.purchase_price,
        current_price |-> currentPrice,
        cost_basis |-> costBasis,
        market_value |-> marketValue,
        gain_loss |-> gainLoss,
        gain_loss_percent |->
            IF costBasis = 0 THEN [num |-> 0, den |-> 1]
            ELSE [num |-> gainLoss * 100, den |-> costBasis]]

displayHoldings(portfolio, prices) ==
    [i \in DOMAIN portfolio |-> DisplayItem(portfolio[i], prices)]

\* holdings.reduce((sum, item) => sum + item.market_value, 0) and its twin
\* for cost_basis (lines 355-356)
RECURSIVE SumMarketValue(_)
SumMarketValue(hs) ==
    IF hs = << >> THEN 0
    ELSE SumMarketValue(SubSeq(hs, 1, Len(hs) - 1)) + hs[Len(hs)].market_value

RECURSIVE SumCostBasis(_)
SumCostBasis(hs) ==
    IF hs = << >> THEN 0
    ELSE SumCostBasis(SubSeq(hs, 1, Len(hs) - 1)) + hs[Len(hs)].cost_basis

\* (variant of Totals: the sums are shown without the exchange rate)
TotalsUnconverted(hs, rate) ==
    LET totalMarketValue == SumMarketValue(hs) * RateOne
        totalCostBasis == SumCostBasis(hs) * RateOne
        totalGainLoss == totalMarketValue - totalCostBasis
    IN [totalMarketValue |-> totalMarketValue,
        totalCostBasis |-> totalCostBasis,
        totalGainLoss |-> totalGainLoss,
        totalGainLossPercent |->
            IF totalCostBasis = 0 THEN [num |-> 0, den |-> 1]
            ELSE [num |-> totalGainLoss * 100, den |-> totalCostBasis]]

\* the overall metrics of lines 355-358 for displayed rows hs and exchange
\* rate (in hundredths); the totals are in hundredths of the rows' unit and
\* the percentage is the fraction num / den
Totals(hs, rate) ==
    LET totalMarketValue == SumMarketValue(hs) * rate
        totalCostBasis == SumCostBasis(hs) * rate
        totalGainLoss == totalMarketValue - totalCostBasis
    IN [totalMarketValue |-> totalMarketValue,
        totalCostBasis |-> totalCostBasis,
        totalGainLoss |-> totalGainLoss,
        totalGainLossPercent |->
            IF totalCostBasis = 0 THEN [num |-> 0, den |-> 1]
            ELSE [num |-> totalGainLoss * 100, den |-> totalCostBasis]]

\* A running fetchPortfolio: its start number, its position, the rows it
\* read, the argument of fetchStockPrices, the loop index and the prices
\* object; history: requested lists the tickers requested so far and resps
\* maps each to the response its request received
Refresh(n) == [n |-> n, pc |-> "select", portfolio |-> << >>,
               tickers |-> << >>, i |-> 0, prices |-> << >>,
               requested |-> << >>, resps |-> << >>]

\* the record of a completed fetchStockPrices call (history)
NoDone == [n |-> 0, portfolio |-> << >>, tickers |-> << >>,
           prices |-> << >>, requested |-> << >>, resps |-> << >>]

Finished(r, prices, resps) ==
    [n |-> r.n, portfolio |-> r.portfolio, tickers |-> r.tickers,
     prices |-> prices, requested |-> r.requested, resps |-> resps]

\* A price request in flight: the refresh that awaits it and its ticker
PriceReq(n, ticker) == [n |-> n, ticker |-> ticker]

\* the call fetchPortfolio() up to its first await (lines 270-276)
fetchPortfolio ==
    /\ started < MaxRefreshes
    /\ started' = started + 1
    /\ loading' = TRUE
    /\ refreshes' = refreshes \cup { Refresh(started + 1) }

\* the end of fetchPortfolio (lines 299-317) for refresh r
FinishRefresh(r, prices, resps) ==
    /\ holdings' = displayHoldings(r.portfolio, prices)
    /\ loading' = FALSE
    /\ refreshes' = refreshes \ { rr \in refreshes : rr.n = r.n }
    /\ done' = Finished(r, prices, resps)

\* (variant of SelectFailed: the error branch returns without
\* setLoading(false))
SelectFailedKeepsLoading(r) ==
    /\ refreshes' = refreshes \ {r}
    /\ UNCHANGED << holdings, loading, done >>

\* the error branch of fetchPortfolio (lines 278-282) for refresh r
SelectFailed(r) ==
    /\ loading' = FALSE
    /\ refreshes' = refreshes \ {r}
    /\ UNCHANGED << holdings, done >>

\* The select of lines 273-276 settles.  On success fetchPortfolio runs on
\* to the first await of fetchStockPrices (line 104), or to its end when no
\* API key is set (lines 94-97) or nothing is held (lines 286-290).
SelectReturn(r, ok) ==
    /\ settled' = NoSettled
    /\ r \in refreshes
    /\ r.pc = "select"
    /\ IF ~ok
       THEN SelectFailed(r)
       ELSE LET portfolio == OrderByTicker(store)
                rr == [r EXCEPT !.portfolio = portfolio,
                                !.tickers = uniqueTickers(portfolio)]
            IN IF Len(portfolio) = 0
               THEN /\ holdings' = << >>
                    /\ loading' = FALSE
                    /\ refreshes' = refreshes \ {r}
                    /\ UNCHANGED done
               ELSE IF ~apiKey
               THEN FinishRefresh(rr, ZeroPrices(rr.tickers), << >>)
               ELSE /\ refreshes' = (refreshes \ {r}) \cup
                           { [rr EXCEPT !.pc = "delay", !.i = 1] }
                    /\ UNCHANGED << holdings, loading, done >>
    /\ UNCHANGED << started, priceReqs, deletes >>
    /\ UNCHANGED << formVars, envVars, fnVars, currencyVars,
                    editVars >>
    /\ alertMsg' = "none"

\* The 150 ms delay of line 104 is over: the request of lines 107-109 goes
\* out
DelayElapsed(r) ==
    /\ settled' = NoSettled
    /\ r \in refreshes
    /\ r.pc = "delay"
    /\ priceReqs' = priceReqs \cup { PriceReq(r.n, r.tickers[r.i]) }
    /\ refreshes' = (refreshes \ {r}) \cup
           { [r EXCEPT !.pc = "fetch",
                       !.requested = Append(@, r.tickers[r.i])] }
    /\ UNCHANGED << holdings, loading, started, deletes, done >>
    /\ UNCHANGED << formVars, envVars, fnVars, currencyVars,
                    editVars >>
    /\ alertMsg' = "none"

\* A previous-close request settles (lines 110-124); the loop goes on to the
\* next ticker's delay, or fetchStockPrices returns and fetchPortfolio runs
\* to its end
PriceReturn(q, resp) ==
    /\ settled' = NoSettled
    /\ q \in priceReqs
    /\ priceReqs' = priceReqs \ {q}
    /\ \E r \in refreshes :
          /\ r.n = q.n
          /\ r.pc = "fetch"
          /\ LET prices == SetPrice(r.prices, q.ticker, ClosePrice(resp))
                 resps == SetPrice(r.resps, q.ticker, resp)
             IN IF r.i = Len(r.tickers)
                THEN FinishRefresh(r, prices, resps)
                ELSE /\ refreshes' = (refreshes \ {r}) \cup
                            { [r EXCEPT !.pc = "delay", !.i = @ + 1,
                                        !.prices = prices,
                                        !.resps = resps] }
                     /\ UNCHANGED << holdings, loading, done >>
    /\ UNCHANGED << started, deletes >>
    /\ UNCHANGED << formVars, envVars, fnVars, currencyVars,
                    editVars >>
    /\ alertMsg' = "none"

\* handleDelete(id), confirmed, up to the await of deleteHolding (lines
\* 340-342, 161-166); the table is rendered only while not loading.  One
\* delete per row is awaited at a time.
handleDelete(id) ==
    /\ settled' = NoSettled
    /\ ~loading
    /\ \E i \in DOMAIN holdings : holdings[i].id = id
    /\ id \notin deletes
    /\ deletes' = deletes \cup {id}
    /\ UNCHANGED << holdings, loading, refreshes, started, priceReqs, done >>
    /\ UNCHANGED << formVars, envVars, fnVars, currencyVars,
                    editVars >>
    /\ alertMsg' = "none"

\* deleteHolding settles (lines 168-173) and handleDelete resumes (lines
\* 343-345)
DeleteReturn(id, ok) ==
    /\ settled' = NoSettled
    /\ id \in deletes
    /\ deletes' = deletes \ {id}
    /\ IF ok
       THEN /\ store' = SelectSeq(store, LAMBDA row : row.id # id)
            /\ fetchPortfolio
            /\ alertMsg' = "none"
       ELSE /\ alertMsg' = "delete_error"
            /\ UNCHANGED << store, started, loading, refreshes >>
    /\ UNCHANGED << holdings, priceReqs, done, apiKey, nextId >>
    /\ UNCHANGED << open, tickerValidated, checkedFor, companyName,
                    isChecking, form,
                    tickerError, timers, effectTimer, lookups, sub, burst >>
    /\ UNCHANGED << fnVars, currencyVars, editVars >>

\* handleDelete(id) when window.confirm returns false (line 341): nothing
\* is called
DeclineDelete(id) ==
    /\ settled' = NoSettled
    /\ ~loading
    /\ \E i \in DOMAIN holdings : holdings[i].id = id
    /\ declined' = 1 - declined
    /\ alertMsg' = "none"
    /\ UNCHANGED << isEditDialogOpen, editingHolding, data, isSubmitting,
                    updates >>
    /\ UNCHANGED << tableVars, formVars, envVars, fnVars, currencyVars >>

\* ------------------------------------------------------------------------
\* PortfolioTable: display currency
\* ------------------------------------------------------------------------
\* What fetch + response.json() can produce for the previous close of a
\* currency pair
FxResponses ==
    { [kind |-> "neterr", hasResults |-> FALSE, numeric |-> FALSE, c |-> 0],
      [kind |-> "json", hasResults |-> FALSE, numeric |-> FALSE, c |-> 0],
      [kind |-> "json", hasResults |-> TRUE, numeric |-> FALSE, c |-> 0] }
    \cup { [kind |-> "json", hasResults |-> TRUE, numeric |-> TRUE,
            c |-> r] : r \in FxCloses }

\* fetchExchangeRate(from, to) (lines 130-156) given the response its
\* request gets
fetchExchangeRate(from, to, key, resp) ==
    IF from = to THEN RateOne
    ELSE IF ~key THEN RateOne
    ELSE IF resp.kind # "json" THEN RateOne
    ELSE IF resp.hasResults
         THEN (IF resp.numeric THEN resp.c ELSE RateOne)
         ELSE RateOne

\* An awaited request of fetchExchangeRate("USD", to)
FxReq(id, to) == [id |-> id, to |-> to]

\* (variant of KeepsPortfolio: the toggle starts a refresh)
RefetchesPortfolio ==
    /\ fetchPortfolio
    /\ UNCHANGED << holdings, priceReqs, deletes, done, store, nextId >>

\* what handleCurrencyChange leaves alone: the rows, the running refreshes,
\* the price requests and the store
KeepsPortfolio ==
    UNCHANGED << holdings, loading, refreshes, started, priceReqs, deletes,
                 done, store, nextId >>

\* handleCurrencyChange(newCurrency) (lines 322-332), called by the select's
\* onChange (line 378), up to the await of the request; with no API key
\* fetchExchangeRate returns before any request (line 132) and the rate is
\* set in the same turn
handleCurrencyChange(newCurrency) ==
    /\ settled' = NoSettled
    /\ newCurrency # currency
    /\ currency' = newCurrency
    /\ IF newCurrency = "USD"
       THEN /\ exchangeRate' = RateOne
            /\ rateOf' = "USD"
            /\ UNCHANGED fxReqs
       ELSE IF ~apiKey
       THEN /\ exchangeRate' = fetchExchangeRate("USD", newCurrency, apiKey,
                                                 CHOOSE r \in FxResponses :
                                                    r.kind = "neterr")
            /\ rateOf' = newCurrency
            /\ UNCHANGED fxReqs
       ELSE /\ Cardinality(fxReqs) < MaxFxFetches
            /\ fxReqs' = fxReqs \cup { FxReq(FreeId(fxReqs), newCurrency) }
            /\ UNCHANGED << exchangeRate, rateOf >>
    /\ KeepsPortfolio
    /\ alertMsg' = "none"
    /\ UNCHANGED apiKey
    /\ UNCHANGED << formVars, fnVars, editVars >>

\* The request of fetchExchangeRate settles and handleCurrencyChange resumes
\* (lines 142-154, 330)
FxReturn(q, resp) ==
    /\ settled' = NoSettled
    /\ q \in fxReqs
    /\ fxReqs' = fxReqs \ {q}
    /\ exchangeRate' = fetchExchangeRate("USD", q.to, apiKey, resp)
    /\ rateOf' = q.to
    /\ alertMsg' = "none"
    /\ UNCHANGED currency
    /\ UNCHANGED << tableVars, formVars, envVars, fnVars, editVars >>

\* ------------------------------------------------------------------------
\* PortfolioTable: EditHoldingForm
\* ------------------------------------------------------------------------
\* what parseFloat(e.target.value) yields for the texts typed into the
\* number inputs: NaN for an emptied input, else the number
ParsedQuantities == { [nan |-> TRUE, n |-> 0], [nan |-> FALSE, n |-> 3] }
ParsedPrices == { [nan |-> FALSE, n |-> 20000] }

\* parseFloat(e.target.value) || 0 (lines 221, 233)
OrZero(x) == IF x.nan \/ x.n = 0 THEN 0 ELSE x.n

\* the fields of a displayed row that EditHoldingForm reads once it has
\* mounted (lines 196, 212)
AsPortfolioItem(h) == [id |-> h.id, ticker |-> h.ticker]

\* An awaited update call of handleSave (lines 189-196); mounted says that
\* the form that issued it is still mounted
Update(id, holdingId, d) ==
    [id |-> id, holding |-> holdingId, quantity |-> d.quantity,
     purchase_price |-> d.purchase_price, mounted |-> TRUE]

\* the dialog content, and with it the form and its state, is unmounted
Unmounted(us) == { [u EXCEPT !.mounted = FALSE] : u \in us }

\* handleEdit(holding) (lines 349-352) from a row's menu; the dialog is
\* modal, and EditHoldingForm mounts with the row's values (lines 177-182)
handleEdit(i) ==
    /\ settled' = NoSettled
    /\ ~loading
    /\ ~isEditDialogOpen
    /\ i \in DOMAIN holdings
    /\ editingHolding' = AsPortfolioItem(holdings[i])
    /\ isEditDialogOpen' = TRUE
    /\ data' = [quantity |-> holdings[i].quantity,
                purchase_price |-> holdings[i].purchase_price]
    /\ isSubmitting' = FALSE
    /\ alertMsg' = "none"
    /\ UNCHANGED << updates, declined >>
    /\ UNCHANGED << tableVars, formVars, envVars, fnVars, currencyVars >>

\* onOpenChange={setIsEditDialogOpen} (line 410) with false
CloseEditDialog ==
    /\ settled' = NoSettled
    /\ isEditDialogOpen
    /\ isEditDialogOpen' = FALSE
    /\ data' = NoData
    /\ isSubmitting' = FALSE
    /\ updates' = Unmounted(updates)
    /\ alertMsg' = "none"
    /\ UNCHANGED << editingHolding, declined >>
    /\ UNCHANGED << tableVars, formVars, envVars, fnVars, currencyVars >>

\* onChange of the quantity input (line 221)
EditDataQuantity(x) ==
    /\ settled' = NoSettled
    /\ isEditDialogOpen
    /\ OrZero(x) # data.quantity
    /\ data' = [data EXCEPT !.quantity = OrZero(x)]
    /\ alertMsg' = "none"
    /\ UNCHANGED << isEditDialogOpen, editingHolding, isSubmitting, updates,
                    declined >>
    /\ UNCHANGED << tableVars, formVars, envVars, fnVars, currencyVars >>

\* onChange of the price input (line 233)
EditDataPrice(x) ==
    /\ settled' = NoSettled
    /\ isEditDialogOpen
    /\ OrZero(x) # data.purchase_price
    /\ data' = [data EXCEPT !.purchase_price = OrZero(x)]
    /\ alertMsg' = "none"
    /\ UNCHANGED << isEditDialogOpen, editingHolding, isSubmitting, updates,
                    declined >>
    /\ UNCHANGED << tableVars, formVars, envVars, fnVars, currencyVars >>

\* handleSave (lines 185-196) up to the await of the update; the submit
\* button is disabled while isSubmitting (line 247)
handleSave ==
    /\ settled' = NoSettled
    /\ isEditDialogOpen
    /\ ~isSubmitting
    /\ Cardinality(updates) < MaxUpdates
    /\ isSubmitting' = TRUE
    /\ updates' = updates \cup
                     { Update(FreeId(updates), editingHolding.id, data) }
    /\ alertMsg' = "none"
    /\ UNCHANGED << isEditDialogOpen, editingHolding, data, declined >>
    /\ UNCHANGED << tableVars, formVars, envVars, fnVars, currencyVars >>

\* .update({...}).eq("id", holding.id) applied to the rows of the store
UpdateRows(rows, u) ==
    [i \in DOMAIN rows |->
        IF rows[i].id = u.holding
        THEN [rows[i] EXCEPT !.quantity = u.quantity,
                             !.purchase_price = u.purchase_price]
        ELSE rows[i]]

\* (variant of UpdateFailed: the table is refreshed all the same)
UpdateFailedRefreshes ==
    /\ alertMsg' = "update_error"
    /\ fetchPortfolio
    /\ UNCHANGED << store, isEditDialogOpen, data >>

\* the error branch of lines 199-201
UpdateFailed ==
    /\ alertMsg' = "update_error"
    /\ UNCHANGED << store, started, loading, refreshes, isEditDialogOpen,
                    data >>

\* The update settles and handleSave resumes (lines 198-205): on success
\* onSuccess is fetchPortfolio (line 422) and onClose closes the dialog
\* (line 421)
UpdateReturn(u, ok) ==
    /\ settled' = NoSettled
    /\ u \in updates
    /\ IF ok
       THEN /\ store' = UpdateRows(store, u)
            /\ fetchPortfolio
            /\ isEditDialogOpen' = FALSE
            /\ data' = NoData
            /\ isSubmitting' = FALSE
            /\ updates' = Unmounted(updates \ {u})
            /\ alertMsg' = "none"
       ELSE /\ UpdateFailed
            /\ isSubmitting' = IF u.mounted THEN FALSE ELSE isSubmitting
            /\ updates' = updates \ {u}
    /\ UNCHANGED << editingHolding, declined >>
    /\ UNCHANGED << holdings, priceReqs, deletes, done, apiKey, nextId >>
    /\ UNCHANGED << formVars, fnVars, currencyVars >>

\* ------------------------------------------------------------------------
\* AddStockForm: submission
\* ------------------------------------------------------------------------
\* disabled of the submit button (line 356)
SubmitDisabled ==
    sub.pc # "idle" \/ ~Truthy(tickerValidated) \/ isChecking

\* (variant of UsdPrice: the entered price is kept as it is)
UsdPriceUnconverted(values, rate) == values.purchase_price * RateOne

\* usdPrice of lines 177-183, in 1/10000
UsdPrice(values, rate) ==
    IF values.purchase_currency = "EUR"
    THEN values.purchase_price * rate
    ELSE values.purchase_price * RateOne

\* The submit button is pressed: form.handleSubmit validates against
\* formSchema, replaces the field errors by the resolver's, and calls
\* onSubmit with the parsed values when they are valid (lines 163-170, up
\* to the await of getUser)
Submit ==
    /\ settled' = NoSettled
    /\ open
    /\ ~SubmitDisabled
    /\ IF ~SchemaValid(form)
       THEN /\ tickerError' = IF form.ticker = EmptyStr THEN "required"
                                                        ELSE "none"
            /\ UNCHANGED sub
            /\ alertMsg' = "none"
       ELSE /\ tickerError' = "none"
            /\ IF ~Truthy(tickerValidated)
               THEN /\ alertMsg' = "validate"
                    /\ UNCHANGED sub
               ELSE /\ sub' = [NoSub EXCEPT !.pc = "getUser",
                                            !.values = SchemaParse(form)]
                    /\ alertMsg' = "none"
    /\ UNCHANGED << open, tickerValidated, checkedFor, companyName,
                    isChecking, form,
                    timers, effectTimer, lookups, burst >>
    /\ UNCHANGED << tableVars, envVars, fnVars, currencyVars,
                    editVars >>

\* supabase.auth.getUser() settles (lines 170-183): without a user onSubmit
\* returns; for EUR it calls fetchEuroToUsdRate, which returns at once when
\* no API key is set (line 56); otherwise the insert goes out
GetUserReturn(user) ==
    /\ settled' = NoSettled
    /\ sub.pc = "getUser"
    /\ IF ~user
       THEN /\ alertMsg' = "login"
            /\ sub' = NoSub
       ELSE /\ alertMsg' = "none"
            /\ IF sub.values.purchase_currency = "EUR"
               THEN IF apiKey
                    THEN sub' = [sub EXCEPT !.pc = "rate",
                                            !.rateCalled = TRUE]
                    ELSE sub' = [sub EXCEPT
                            !.pc = "insert", !.rateCalled = TRUE,
                            !.usdPrice = UsdPrice(sub.values,
                                   fetchEuroToUsdRate(apiKey, NoResp))]
               ELSE sub' = [sub EXCEPT
                            !.pc = "insert",
                            !.usdPrice = UsdPrice(sub.values, RateOne)]
    /\ UNCHANGED << open, tickerValidated, checkedFor, companyName,
                    isChecking, form,
                    tickerError, timers, effectTimer, lookups, burst >>
    /\ UNCHANGED << tableVars, envVars, fnVars, currencyVars,
                    editVars >>

\* The request of fetchEuroToUsdRate settles (lines 64-75, 182) and the
\* insert goes out
RateReturn(resp) ==
    /\ settled' = NoSettled
    /\ sub.pc = "rate"
    /\ sub' = [sub EXCEPT
                 !.pc = "insert", !.resp = resp,
                 !.usdPrice = UsdPrice(sub.values,
                                       fetchEuroToUsdRate(apiKey, resp))]
    /\ alertMsg' = "none"
    /\ UNCHANGED << open, tickerValidated, checkedFor, companyName,
                    isChecking, form,
                    tickerError, timers, effectTimer, lookups, burst >>
    /\ UNCHANGED << tableVars, envVars, fnVars, currencyVars,
                    editVars >>

\* the row of lines 188-194 as the store keeps it
InsertedRow(id, values, usdPrice) ==
    [id |-> id, ticker |-> values.ticker, quantity |-> values.quantity,
     purchase_price |-> usdPrice]

\* (variant of InsertFailed: the dialog is closed on either outcome)
InsertFailedCloses ==
    /\ alertMsg' = "insert_error"
    /\ open' = FALSE
    /\ UNCHANGED << store, nextId, form, tickerError, companyName,
                    tickerValidated, checkedFor, timers, effectTimer, burst,
                    started,
                    loading, refreshes >>

\* the error branch of lines 196-198
InsertFailed ==
    /\ alertMsg' = "insert_error"
    /\ UNCHANGED << store, nextId, form, tickerError, companyName,
                    tickerValidated, checkedFor, open, timers, effectTimer,
                    burst,
                    started, loading, refreshes >>

\* The insert settles (lines 196-205).  On success form.reset() empties the
\* ticker field, so the effect of lines 139-148 runs as for a cleared
\* field, and onSuccess is the parent's fetchPortfolio (line 385).
InsertReturn(ok) ==
    /\ settled' = NoSettled
    /\ sub.pc = "insert"
    /\ sub' = NoSub
    /\ IF ok
       THEN /\ Len(store) < MaxRows
            /\ store' = Append(store,
                               InsertedRow(nextId, sub.values, sub.usdPrice))
            /\ nextId' = nextId + 1
            /\ form' = DefaultValues
            /\ tickerError' = "none"
            /\ companyName' = NoName
            /\ tickerValidated' = "null"
            /\ checkedFor' = EmptyStr
            /\ open' = FALSE
            /\ IF form.ticker # EmptyStr
               THEN /\ timers' = clearTimeout(timers, effectTimer)
                    /\ effectTimer' = 0
               ELSE UNCHANGED << timers, effectTimer >>
            /\ burst' = NoBurst
            /\ fetchPortfolio
            /\ alertMsg' = "none"
       ELSE InsertFailed
    /\ UNCHANGED << isChecking, lookups, apiKey >>
    /\ UNCHANGED << holdings, priceReqs, deletes, done >>
    /\ UNCHANGED << fnVars, currencyVars, editVars >>

\* ------------------------------------------------------------------------
\* Pure-function harness: one call of checkTickerAndName
\* ------------------------------------------------------------------------
NoCall == [called |-> FALSE, r |-> LookupResult(FALSE, NoName, FALSE)]

ApplyLookup ==
    /\ ~fnOut.called
    /\ fnOut' = [called |-> TRUE,
                 r |-> checkTickerAndName(fnIn.ticker, fnIn.key, fnIn.resp)]
    /\ UNCHANGED << fnIn, formVars, alertMsg, settled, tableVars, envVars,
                    currencyVars, editVars >>

\* ------------------------------------------------------------------------
\* Pure-function harness: one valuation of a portfolio
\* ------------------------------------------------------------------------
\* rows, price maps and display rates the valuation is applied to; prices
\* are in whole units here, rates in hundredths
ValuedQuantities == { 0, 10 }
ValuedPrices == { 0, 100 }
ValuedCloses == { 0, 150 }
ValuedRates == { RateOne, 92 }
ValuedRows == [id : {0}, ticker : ApiSymbols, quantity : ValuedQuantities,
               purchase_price : ValuedPrices]
ValuedPortfolios ==
    UNION { { [i \in 1..k |-> [f[i] EXCEPT !.id = i]] :
                f \in [1..k -> ValuedRows] } : k \in 0..MaxRows }
PriceMaps ==
    UNION { [S -> ValuedCloses] : S \in SUBSET ApiSymbols }
ValuationInputs ==
    [portfolio : ValuedPortfolios, prices : PriceMaps, rate : ValuedRates]

NoValuation == [called |-> FALSE, rows |-> << >>,
                totals |-> Totals(<< >>, RateOne)]

\* lines 299-314 followed by the render of lines 355-358
ApplyValuation ==
    /\ ~fnOut.called
    /\ fnOut' = [called |-> TRUE,
                 rows |-> displayHoldings(fnIn.portfolio, fnIn.prices),
                 totals |-> Totals(displayHoldings(fnIn.portfolio,
                                                   fnIn.prices),
                                   fnIn.rate)]
    /\ UNCHANGED << fnIn, formVars, alertMsg, settled, tableVars, envVars,
                    currencyVars, editVars >>

\* ------------------------------------------------------------------------
\* Initial states and specifications
\* ------------------------------------------------------------------------
\* rows another session may have left in the store
StoredRows == [id : {0}, ticker : ApiSymbols, quantity : {2},
               purchase_price : {1000000}]

InitialStores ==
    UNION { { [i \in 1..k |-> [f[i] EXCEPT !.id = i]] :
                f \in [1..k -> StoredRows] } : k \in 0..MaxRows }

NoInput == [ticker |-> EmptyStr, key |-> FALSE,
            resp |-> CHOOSE r \in LookupResponses : r.kind = "neterr"]

\* AddStockForm and PortfolioTable after their first render and effects:
\* the form's effect has run performTickerCheck("") and the table's has
\* called fetchPortfolio (line 336)
InitClient ==
    /\ open = FALSE
    /\ tickerValidated = "null"
    /\ checkedFor = EmptyStr
    /\ companyName = NoName
    /\ isChecking = FALSE
    /\ form = DefaultValues
    /\ tickerError = "none"
    /\ timers = {}
    /\ effectTimer = 0
    /\ lookups = EmptyBag
    /\ sub = NoSub
    /\ alertMsg = "none"
    /\ burst = NoBurst
    /\ settled = NoSettled
    /\ holdings = << >>
    /\ loading = TRUE
    /\ refreshes = { Refresh(1) }
    /\ started = 1
    /\ priceReqs = {}
    /\ deletes = {}
    /\ done = NoDone
    /\ declined = 0
    /\ currency = "USD"
    /\ exchangeRate = RateOne
    /\ fxReqs = {}
    /\ rateOf = "USD"
    /\ isEditDialogOpen = FALSE
    /\ editingHolding = NoHolding
    /\ data = NoData
    /\ isSubmitting = FALSE
    /\ updates = {}

Init ==
    /\ apiKey \in BOOLEAN
    /\ store \in InitialStores
    /\ nextId = Len(store) + 1
    /\ InitClient
    /\ fnIn = NoInput
    /\ fnOut = NoCall

\* the ticker validation of the add form
NextCheck ==
    \/ OpenDialog
    \/ CloseDialog
    \/ \E v \in FormTickers : EditTicker(v)
    \/ \E t \in timers : TimerFire(t)
    \/ CheckClick
    \/ \E l \in BagToSet(lookups), resp \in LookupResponses :
          LookupReturn(l, resp)

\* the submission of the add form
NextSubmit ==
    \/ Submit
    \/ \E user \in BOOLEAN : GetUserReturn(user)
    \/ \E resp \in RateResponses : RateReturn(resp)
    \/ \E ok \in BOOLEAN : InsertReturn(ok)

\* the portfolio table
NextTable ==
    \/ \E r \in refreshes, ok \in BOOLEAN : SelectReturn(r, ok)
    \/ \E r \in refreshes : DelayElapsed(r)
    \/ \E q \in priceReqs, resp \in PriceResponses : PriceReturn(q, resp)
    \/ \E id \in 1..(nextId - 1) : handleDelete(id)
    \/ \E id \in deletes, ok \in BOOLEAN : DeleteReturn(id, ok)

\* the display currency of the table
NextCurrency ==
    \/ \E c \in SupportedCurrencies : handleCurrencyChange(c)
    \/ \E q \in fxReqs, resp \in FxResponses : FxReturn(q, resp)

\* the edit form of the table and a declined delete
NextEdit ==
    \/ \E id \in 1..(nextId - 1) : DeclineDelete(id)
    \/ \E i \in DOMAIN holdings : handleEdit(i)
    \/ CloseEditDialog
    \/ \E x \in ParsedQuantities : EditDataQuantity(x)
    \/ \E x \in ParsedPrices : EditDataPrice(x)
    \/ handleSave
    \/ \E u \in updates, ok \in BOOLEAN : UpdateReturn(u, ok)

Next ==
    \/ NextCheck
    \/ \E q \in FormQuantities : EditQuantity(q)
    \/ \E p \in FormPrices : EditPrice(p)
    \/ \E c \in Currencies : EditCurrency(c)
    \/ NextSubmit
    \/ NextTable
    \/ NextCurrency
    \/ NextEdit

Spec == Init /\ [][Next]_vars

\* A user whose store is empty
InitForm == Init /\ store = << >>

\* The ticker validation of the add form under every order of edits,
\* timeouts, clicks and responses
SpecCheck == InitForm /\ [][NextCheck]_vars

\* The add-holding flow from ticker entry to the insert, for a user who
\* types one symbol and leaves its validation to the debounce
SubmitTickers == { << >>, <<"a">> }
SubmitResponses ==
    { r \in LookupResponses :
        \/ r.kind = "neterr"
        \/ r.status = "OK" /\ r.hasResults /\ r.name = << >> }

NextForm ==
    \/ OpenDialog
    \/ CloseDialog
    \/ \E v \in SubmitTickers : EditTicker(v)
    \/ \E p \in FormPrices : EditPrice(p)
    \/ \E c \in Currencies : EditCurrency(c)
    \/ \E t \in timers : TimerFire(t)
    \/ \E l \in BagToSet(lookups), resp \in SubmitResponses :
          LookupReturn(l, resp)
    \/ NextSubmit

SpecForm == InitForm /\ [][NextForm]_vars

\* The portfolio view over any store
SpecTable == Init /\ [][NextTable]_vars

\* The portfolio view where every request eventually settles and the delay
\* of line 104 eventually elapses, each run of fetchPortfolio on its own; a
\* price request fails or returns a positive close
RefreshResponses ==
    { resp \in PriceResponses : resp.kind = "neterr" \/ resp.c > 0 }

NextRefresh ==
    \/ \E r \in refreshes, ok \in BOOLEAN : SelectReturn(r, ok)
    \/ \E r \in refreshes : DelayElapsed(r)
    \/ \E q \in priceReqs, resp \in RefreshResponses : PriceReturn(q, resp)
    \/ \E id \in 1..(nextId - 1) : handleDelete(id)
    \/ \E id \in deletes, ok \in BOOLEAN : DeleteReturn(id, ok)

SpecRefresh ==
    /\ Init
    /\ [][NextRefresh]_vars
    /\ \A n \in 1..MaxRefreshes :
          /\ WF_vars(\E r \in refreshes, ok \in BOOLEAN :
                        r.n = n /\ SelectReturn(r, ok))
          /\ WF_vars(\E r \in refreshes : r.n = n /\ DelayElapsed(r))
          /\ WF_vars(\E q \in priceReqs, resp \in RefreshResponses :
                        q.n = n /\ PriceReturn(q, resp))

\* The first refresh of the table under every sequence of currency toggles
NextView ==
    \/ \E r \in refreshes, ok \in BOOLEAN : SelectReturn(r, ok)
    \/ \E r \in refreshes : DelayElapsed(r)
    \/ \E q \in priceReqs, resp \in PriceResponses : PriceReturn(q, resp)
    \/ NextCurrency

SpecCurrency == Init /\ [][NextView]_vars

\* The delete and edit actions of a row, for a user who holds one lot and
\* edits its quantity, where no API key is set and a refresh therefore
\* shows the rows it read at once
InitEdit ==
    /\ Init
    /\ ~apiKey
    /\ Len(store) = 1
    /\ store[1].ticker = <<"A">>

NextHoldings ==
    \/ \E r \in refreshes, ok \in BOOLEAN : SelectReturn(r, ok)
    \/ \E id \in 1..(nextId - 1) : handleDelete(id)
    \/ \E id \in deletes, ok \in BOOLEAN : DeleteReturn(id, ok)
    \/ NextEdit

SpecEdit == InitEdit /\ [][NextHoldings]_vars

\* The add-holding flow in USD for a user who types one symbol after the
\* other and leaves the validation to the debounce
StaleTickers == { << >>, <<"A">>, <<"B">> }

NextStale ==
    \/ OpenDialog
    \/ CloseDialog
    \/ \E v \in StaleTickers : EditTicker(v)
    \/ \E t \in timers : TimerFire(t)
    \/ \E l \in BagToSet(lookups), resp \in SubmitResponses :
          LookupReturn(l, resp)
    \/ Submit
    \/ \E user \in BOOLEAN : GetUserReturn(user)
    \/ \E ok \in BOOLEAN : InsertReturn(ok)

SpecStale == InitForm /\ [][NextStale]_vars

\* A user who holds one lot of A and adds a lot of B while the first
\* refresh of the table may still be running
InitOverlap ==
    /\ Init
    /\ apiKey
    /\ Len(store) = 1
    /\ store[1].ticker = <<"A">>

NextOverlap ==
    \/ OpenDialog
    \/ EditTicker(<<"B">>)
    \/ \E t \in timers : TimerFire(t)
    \/ \E l \in BagToSet(lookups), resp \in SubmitResponses :
          LookupReturn(l, resp)
    \/ Submit
    \/ \E user \in BOOLEAN : GetUserReturn(user)
    \/ \E ok \in BOOLEAN : InsertReturn(ok)
    \/ \E r \in refreshes, ok \in BOOLEAN : SelectReturn(r, ok)
    \/ \E r \in refreshes : DelayElapsed(r)
    \/ \E q \in priceReqs, resp \in PriceResponses : PriceReturn(q, resp)

SpecOverlap == InitOverlap /\ [][NextOverlap]_vars

\* One call of checkTickerAndName on any input
InitLookup ==
    /\ apiKey = TRUE
    /\ store = << >>
    /\ nextId = 1
    /\ InitClient
    /\ fnIn \in [ticker : FormTickers, key : BOOLEAN, resp : LookupResponses]
    /\ fnOut = NoCall
SpecLookup == InitLookup /\ [][ApplyLookup]_vars

\* One valuation of any portfolio under any price map and display rate
InitValuation ==
    /\ apiKey = TRUE
    /\ store = << >>
    /\ nextId = 1
    /\ InitClient
    /\ fnIn \in ValuationInputs
    /\ fnOut = NoValuation
SpecValuation == InitValuation /\ [][ApplyValuation]_vars

\* ------------------------------------------------------------------------
\* Properties
\* ------------------------------------------------------------------------
\* the upper-case form of each value of the ticker field, written out
UpperCased == [t \in FormTickers |->
                 IF t = <<"a">> THEN <<"A">> ELSE t]

\* the endpoint answered status OK with a result for the upper-cased ticker
Found(ticker, resp) ==
    /\ resp.kind = "json"
    /\ resp.status = "OK"
    /\ resp.hasResults
    /\ resp.ticker = UpperCased[ticker]

\* C1: a submission of the add form starts only in a step taken from a
\* state whose tickerValidated is true; while it is null or false no
\* onSubmit gets under way, so no rate fetch and no insert is issued, the
\* dialog is not closed and the form is not reset by a submission.
SubmitOnlyWhenValid ==
    [][ /\ (sub.pc = "idle" /\ sub'.pc # "idle") => tickerValidated = "true"
        /\ (sub.pc = "idle" /\ tickerValidated # "true") =>
              /\ sub'.pc = "idle"
              /\ store' = store
              /\ started' = started
              /\ ~(open /\ ~open' /\ form' # form) ]_vars

\* C1 witness: an onSubmit is under way and the ticker was valid
SubmitStartedValid ==
    /\ sub.pc = "getUser"
    /\ tickerValidated = "true"
    /\ sub.values.ticker = <<"A">>

\* C2: while a run of edits of the ticker field to nonempty values is not
\* interrupted by a click on the check button, no lookup is called as long
\* as a debounce timer is pending, the pending timer carries the current
\* field value, and once it has fired exactly one lookup has been called,
\* with the current (final) field value; at most one timer is ever pending.
DebounceOneLookup ==
    /\ Cardinality(timers) <= 1
    /\ (burst.active /\ ~burst.clicked) =>
          /\ timers # {} =>
                /\ burst.calls = 0
                /\ \A t \in timers : t.ticker = form.ticker
          /\ timers = {} =>
                /\ burst.calls = 1
                /\ burst.last = form.ticker

\* C2 witness: a run of at least two edits has settled into one lookup
DebounceSettled ==
    /\ burst.active
    /\ ~burst.clicked
    /\ burst.edits >= 2
    /\ burst.calls = 1
    /\ timers = {}
    /\ BagCardinality(lookups) >= 1

\* C3 (as claimed): a debounce timer that was pending when the check button
\* was clicked never calls the lookup afterwards, so no lookup awaiting its
\* response comes from such a timer.
ClickPreemptsDebounce ==
    \A l \in BagToSet(lookups) : ~l.preempted

\* C4: in the state a settled lookup leaves behind, isChecking is false;
\* if the endpoint confirmed the ticker the state is Valid, the ticker
\* error is cleared and the display name is the returned name (or the
\* upper-cased ticker when none came); in every other case, a network
\* failure included, the state is Invalid, the ticker error is set and the
\* display name is null.
LookupOutcome ==
    settled # NoSettled =>
        /\ ~isChecking
        /\ IF apiKey /\ Found(settled.ticker, settled.resp)
           THEN /\ tickerValidated = "true"
                /\ tickerError = "none"
                /\ companyName = IF settled.resp.name # << >>
                                 THEN settled.resp.name
                                 ELSE UpperCased[settled.ticker]
           ELSE /\ tickerValidated = "false"
                /\ tickerError = "not_found"
                /\ companyName = NoName

\* C4 witness: a lookup has just failed on the network
LookupFailedInvalid ==
    /\ settled.resp.kind = "neterr"
    /\ settled.ticker # EmptyStr
    /\ tickerValidated = "false"
    /\ tickerError = "not_found"
    /\ ~isChecking

\* C5: a step that empties the ticker field leaves the validation state
\* Unchecked, the display name null and the ticker error cleared; it calls
\* no lookup and schedules no timer.
ClearingResets ==
    [][ (form.ticker # EmptyStr /\ form'.ticker = EmptyStr) =>
            /\ tickerValidated' = "null"
            /\ companyName' = NoName
            /\ tickerError' = "none"
            /\ lookups' = lookups
            /\ isChecking' = isChecking
            /\ timers' \subseteq timers ]_vars

\* C5 witness: the field was emptied while a lookup for its former value
\* was still awaited
ClearedWhileLookup ==
    /\ form.ticker = EmptyStr
    /\ open
    /\ tickerValidated = "null"
    /\ tickerError = "none"
    /\ timers = {}
    /\ lookups # EmptyBag

\* C6: checkTickerAndName never throws; it returns exists:true exactly
\* when a key is set, the symbol is nonempty and the endpoint answers status
\* OK with a result whose ticker is the upper-cased input; otherwise it
\* returns {exists:false, name:null}.
LookupExistsIff ==
    fnOut.called =>
        /\ ~fnOut.r.threw
        /\ fnOut.r.exists <=>
              (fnIn.key /\ fnIn.ticker # EmptyStr
                        /\ Found(fnIn.ticker, fnIn.resp))
        /\ ~fnOut.r.exists => fnOut.r.name = NoName

\* C6 witness: a lower-case input was matched against its upper-case symbol
LookupMatchedUpper ==
    /\ fnOut.called
    /\ fnOut.r.exists
    /\ fnIn.ticker = <<"a">>
    /\ fnIn.resp.ticker = <<"A">>

\* the FX rate the add form is to use for a response, in hundredths
ExpectedRate(resp) ==
    IF resp.kind = "json" /\ resp.status = "OK" /\ resp.hasResults
                          /\ resp.numeric
    THEN resp.c
    ELSE 108

\* C7: the row a successful submission adds to the store has, for EUR, the
\* entered price times the rate of the response (1.08 when the fetch failed
\* or no key is set), and for USD the entered price itself, with no call
\* of the rate fetch.
StoredPriceConverted ==
    [][ Len(store') = Len(store) + 1 =>
          LET row == store'[Len(store')]
              v == sub.values
          IN /\ row.ticker = v.ticker
             /\ row.quantity = v.quantity
             /\ v.purchase_currency = "EUR" =>
                   /\ sub.rateCalled
                   /\ row.purchase_price =
                         v.purchase_price *
                         (IF apiKey THEN ExpectedRate(sub.resp) ELSE 108)
             /\ v.purchase_currency = "USD" =>
                   /\ ~sub.rateCalled
                   /\ sub.resp = NoResp
                   /\ row.purchase_price = v.purchase_price * 100 ]_vars

\* C7 witness: a price of 1.50 EUR was stored at the fetched rate 0.92
StoredAtFetchedRate ==
    \E i \in DOMAIN store : store[i].purchase_price = 150 * 92

\* C8: when the insert fails an alert is raised and the dialog, the form
\* values and the validation state are as before, and no refresh starts;
\* when it succeeds the form is back at its defaults, the validation state
\* is Unchecked, the dialog is closed and exactly one refresh starts.
InsertOutcome ==
    [][ (sub.pc = "insert" /\ sub'.pc = "idle") =>
          IF store' = store
          THEN /\ alertMsg' = "insert_error"
               /\ open' = open
               /\ form' = form
               /\ tickerValidated' = tickerValidated
               /\ companyName' = companyName
               /\ tickerError' = tickerError
               /\ isChecking' = isChecking
               /\ started' = started
               /\ refreshes' = refreshes
          ELSE /\ alertMsg' = "none"
               /\ form' = DefaultValues
               /\ tickerValidated' = "null"
               /\ companyName' = NoName
               /\ open' = FALSE
               /\ started' = started + 1
               /\ loading'
               /\ Cardinality(refreshes' \ refreshes) = 1
               /\ refreshes \subseteq refreshes' ]_vars

\* C8 witness: an insert has just failed with the dialog open and the
\* entered ticker still valid
InsertFailedOpen ==
    /\ alertMsg = "insert_error"
    /\ open
    /\ form.ticker # EmptyStr
    /\ tickerValidated = "true"

\* the tickers held by the rows of a portfolio
TickersOf(portfolio) == { portfolio[i].ticker : i \in DOMAIN portfolio }

\* how often x occurs in seq
Occurrences(seq, x) == Cardinality({ i \in DOMAIN seq : seq[i] = x })

\* the price requests of refresh n that await their response
ReqsOf(n) == { q \in priceReqs : q.n = n }

\* C9 (as claimed): a refresh never has two price requests in flight, and
\* a completed refresh has requested each distinct ticker of its holdings
\* exactly once.
EveryTickerRequestedOnce ==
    /\ \A r \in refreshes : Cardinality(ReqsOf(r.n)) <= 1
    /\ done.n > 0 =>
          \A t \in TickersOf(done.portfolio) :
             Occurrences(done.requested, t) = 1

\* the state part of C9 as amended
SequentialFetchState ==
    /\ \A r \in refreshes :
          /\ Cardinality(ReqsOf(r.n)) <= 1
          /\ \A i \in DOMAIN r.requested :
                /\ r.requested[i] \in TickersOf(r.portfolio)
                /\ Occurrences(r.requested, r.requested[i]) = 1
    /\ done.n > 0 =>
          /\ ReqsOf(done.n) = {}
          /\ \A i \in DOMAIN done.requested :
                done.requested[i] \in TickersOf(done.portfolio)
          /\ \A t \in TickersOf(done.portfolio) :
                Occurrences(done.requested, t) = IF apiKey THEN 1 ELSE 0

\* the step part of C9 as amended
SequentialFetchStep ==
    /\ \A q \in priceReqs' \ priceReqs :
          /\ ReqsOf(q.n) = {}
          /\ \E r \in refreshes :
                /\ r.n = q.n
                /\ r.pc = "delay"
                /\ \A i \in DOMAIN r.requested :
                      r.requested[i] \in DOMAIN r.resps
    /\ done' # done =>
          /\ holdings' = displayHoldings(done'.portfolio, done'.prices)
          /\ { q \in priceReqs' : q.n = done'.n } = {}
          /\ apiKey => DOMAIN done'.resps = TickersOf(done'.portfolio)
    /\ holdings' # holdings => (done' # done \/ holdings' = << >>)

\* C9 (amended): with an API key set, a refresh requests each distinct
\* ticker of the holdings it read exactly once, has at most one price
\* request in flight, issues a request only when its delay has elapsed and
\* every earlier request of the refresh has settled, and replaces the
\* displayed rows only when the last request has settled.  With no API key
\* set it issues no price request at all and replaces the rows at once.
SequentialPriceFetch ==
    /\ []SequentialFetchState
    /\ [][SequentialFetchStep]_vars

\* C9 witness: a refresh has completed after requesting two tickers
TwoTickersFetched ==
    /\ apiKey
    /\ done.n > 0
    /\ Len(done.requested) = 2
    /\ Len(holdings) = 2
    /\ ~loading

\* the response carries a close price
Succeeded(resp) == resp.kind = "json" /\ resp.hasResults /\ resp.numeric

\* C10: the map a completed fetchStockPrices returned has exactly the
\* distinct tickers of the holdings as keys; a ticker's value is the close
\* price of its response when that carried one and 0 otherwise (network
\* error, no results, non-numeric close, or no request because no key is
\* set); with a key set every ticker got its request whatever happened to
\* the others; nothing of an earlier refresh is in the map.
PriceMapComplete ==
    done.n > 0 =>
        /\ DOMAIN done.prices = TickersOf(done.portfolio)
        /\ DOMAIN done.prices = { done.tickers[i] : i \in DOMAIN done.tickers }
        /\ \A t \in DOMAIN done.prices :
              done.prices[t] =
                 IF t \in DOMAIN done.resps /\ Succeeded(done.resps[t])
                 THEN done.resps[t].c
                 ELSE 0
        /\ apiKey => DOMAIN done.resps = TickersOf(done.portfolio)
        /\ ~apiKey => DOMAIN done.resps = {}

\* C10 witness: the first ticker failed on the network and the second was
\* still requested and priced
FailureThenSuccess ==
    /\ done.n > 0
    /\ done.tickers = << <<"A">>, <<"B">> >>
    /\ DOMAIN done.resps = { <<"A">>, <<"B">> }
    /\ done.resps[<<"A">>].kind = "neterr"
    /\ done.prices[<<"A">>] = 0
    /\ done.prices[<<"B">>] = 1500000

\* the fraction f is the number k
FractionIs(f, k) == f.den # 0 /\ f.num = k * f.den

\* C11: the display row derived from a holding and a price map has the
\* map's price of its ticker as current price (0 when the map has none),
\* quantity times current price as market value, quantity times purchase
\* price as cost basis, their difference as gain/loss, and as percentage
\* gain/loss over cost basis times 100, which is exactly 0 when the cost
\* basis is 0, whatever the market value.
RowValuation ==
    fnOut.called =>
        /\ Len(fnOut.rows) = Len(fnIn.portfolio)
        /\ \A i \in DOMAIN fnOut.rows :
              LET h == fnIn.portfolio[i]
                  row == fnOut.rows[i]
                  price == IF h.ticker \in DOMAIN fnIn.prices
                           THEN fnIn.prices[h.ticker] ELSE 0
              IN /\ row.id = h.id
                 /\ row.ticker = h.ticker
                 /\ row.quantity = h.quantity
                 /\ row.purchase_price = h.purchase_price
                 /\ row.current_price = price
                 /\ row.market_value = h.quantity * price
                 /\ row.cost_basis = h.quantity * h.purchase_price
                 /\ row.gain_loss = row.market_value - row.cost_basis
                 /\ IF row.cost_basis = 0
                    THEN FractionIs(row.gain_loss_percent, 0)
                    ELSE /\ row.gain_loss_percent.num = row.gain_loss * 100
                         /\ row.gain_loss_percent.den = row.cost_basis

\* C11 witness: 10 shares bought at 100 and priced at 150 are valued at
\* 1500 against a cost of 1000, a gain of 500 or 50 percent, next to a row
\* whose cost basis is 0 while its market value is not
RowValuedAtFifty ==
    /\ fnOut.called
    /\ Len(fnOut.rows) = 2
    /\ fnOut.rows[1].quantity = 10
    /\ fnOut.rows[1].purchase_price = 100
    /\ fnOut.rows[1].current_price = 150
    /\ fnOut.rows[1].market_value = 1500
    /\ fnOut.rows[1].cost_basis = 1000
    /\ fnOut.rows[1].gain_loss = 500
    /\ FractionIs(fnOut.rows[1].gain_loss_percent, 50)
    /\ fnOut.rows[2].cost_basis = 0
    /\ fnOut.rows[2].market_value = 1500
    /\ FractionIs(fnOut.rows[2].gain_loss_percent, 0)

\* the sum of x[i] over the indices in S
RECURSIVE SumOver(_, _)
SumOver(x, S) ==
    IF S = {} THEN 0
    ELSE LET i == CHOOSE j \in S : TRUE
         IN x[i] + SumOver(x, S \ {i})

\* C12: the total cost basis is the sum of the rows' cost bases times the
\* display rate and the total market value the sum of the rows' market
\* values times the display rate; the total gain/loss is the difference of
\* these converted totals; the total percentage is gain/loss over cost
\* basis times 100, and 0 when the total cost basis is 0; for no rows at
\* all every total is 0.
TotalsLinear ==
    fnOut.called =>
        LET rows == fnOut.rows
            t == fnOut.totals
            costs == [i \in DOMAIN rows |->
                        fnIn.portfolio[i].quantity *
                        fnIn.portfolio[i].purchase_price]
            values == [i \in DOMAIN rows |-> rows[i].market_value]
        IN /\ t.totalCostBasis = SumOver(costs, DOMAIN rows) * fnIn.rate
           /\ t.totalMarketValue = SumOver(values, DOMAIN rows) * fnIn.rate
           /\ t.totalGainLoss = t.totalMarketValue - t.totalCostBasis
           /\ IF t.totalCostBasis = 0
              THEN FractionIs(t.totalGainLossPercent, 0)
              ELSE /\ t.totalGainLossPercent.num = t.totalGainLoss * 100
                   /\ t.totalGainLossPercent.den = t.totalCostBasis
           /\ rows = << >> =>
                 /\ t.totalCostBasis = 0
                 /\ t.totalMarketValue = 0
                 /\ t.totalGainLoss = 0
                 /\ FractionIs(t.totalGainLossPercent, 0)

\* C12 witness: two rows were totalled at the rate 0.92
TotalsAtRate ==
    /\ fnOut.called
    /\ fnIn.rate = 92
    /\ Len(fnOut.rows) = 2
    /\ fnOut.totals.totalCostBasis = 2000 * 92
    /\ fnOut.totals.totalMarketValue = 1500 * 92
    /\ fnOut.totals.totalGainLoss = (0 - 500) * 92
    /\ fnOut.totals.totalGainLossPercent.num = (0 - 500) * 92 * 100
    /\ fnOut.totals.totalGainLossPercent.den = 2000 * 92

\* the handles of the requests or calls in S
IdsOf(S) == { x.id : x \in S }

MutationThenRefresh ==
    [][ LET issued == (deletes' \ deletes) \cup
                      { u \in updates' : u.id \notin IdsOf(updates) }
            settledDeletes == deletes \ deletes'
            settledUpdates == { u \in updates : u.id \notin IdsOf(updates') }
            failed == alertMsg' \in { "delete_error", "update_error" }
        IN /\ Cardinality(issued) <= 1
           /\ issued # {} =>
                 /\ store' = store
                 /\ started' = started
                 /\ settledDeletes = {}
                 /\ settledUpdates = {}
           /\ Cardinality(settledDeletes) + Cardinality(settledUpdates) <= 1
           /\ (settledDeletes # {} \/ settledUpdates # {}) =>
                 /\ issued = {}
                 /\ IF failed
                    THEN /\ store' = store
                         /\ started' = started
                         /\ refreshes' = refreshes
                         /\ loading' = loading
                         /\ settledDeletes # {} <=> alertMsg' = "delete_error"
                    ELSE /\ \A id \in settledDeletes :
                               \A i \in DOMAIN store' : store'[i].id # id
                         /\ \A u \in settledUpdates :
                               /\ Len(store') = Len(store)
                               /\ \A i \in DOMAIN store' :
                                     store'[i].id = u.holding =>
                                        /\ store'[i].quantity = u.quantity
                                        /\ store'[i].purchase_price =
                                              u.purchase_price
                         /\ started' = started + 1
                         /\ loading'
                         /\ refreshes \subseteq refreshes'
                         /\ Cardinality(refreshes' \ refreshes) = 1
                         /\ \A r \in refreshes' \ refreshes : r.pc = "select"
           /\ started' # started =>
                 (settledDeletes # {} \/ settledUpdates # {})
           /\ declined' # declined =>
                 /\ issued = {}
                 /\ deletes' = deletes
                 /\ updates' = updates
                 /\ store' = store
                 /\ started' = started
                 /\ refreshes' = refreshes
                 /\ holdings' = holdings ]_vars

\* C14 witness: an edit was saved, the dialog is closed and the refresh it
\* started is running
SavedThenRefreshing ==
    /\ started = 2
    /\ loading
    /\ ~isEditDialogOpen
    /\ updates = {}
    /\ Len(store) = 1
    /\ store[1].quantity = 3

\* C15 (as claimed): every row of the store has a quantity above 0.
StoredQuantitiesPositive ==
    \A i \in DOMAIN store : store[i].quantity > 0

\* C19 (as claimed): while no exchange-rate request is in flight the rate
\* in use is 1.0 when the selected currency is USD, and otherwise it was
\* obtained by a fetch for the selected currency.
RateMatchesCurrency ==
    fxReqs = {} =>
        IF currency = "USD" THEN exchangeRate = RateOne
                            ELSE rateOf = currency

\* C16 (as claimed): the ticker onSubmit is called with, which is the one
\* the insert stores, is the upper-cased ticker of the lookup that made the
\* validation state Valid, the most recently completed one.
SubmittedTickerConfirmed ==
    [][ /\ (sub.pc = "idle" /\ sub'.pc = "getUser") =>
              /\ tickerValidated = "true"
              /\ sub'.values.ticker = toUpperCase(checkedFor)
        /\ Len(store') = Len(store) + 1 =>
              store'[Len(store')].ticker = sub.values.ticker ]_vars

\* C17 (as claimed): while no lookup is awaited and no debounce timer is
\* pending, the validation state is Unchecked for an empty field and
\* otherwise holds the result of a lookup for the current field value; and
\* isChecking is true while a lookup is awaited.
ValidationMatchesField ==
    /\ (lookups = EmptyBag /\ timers = {}) =>
          IF form.ticker = EmptyStr
          THEN tickerValidated = "null"
          ELSE /\ tickerValidated # "null"
               /\ checkedFor = form.ticker
    /\ lookups # EmptyBag => isChecking

\* C18 (as claimed): a refresh that replaces the displayed rows was started
\* later than the refresh whose rows it replaces, so an older refresh that
\* finishes later never overwrites the rows of a newer one.
NewerRefreshWins ==
    [][ done' # done => done'.n > done.n ]_vars

\* refresh number n is running
Running(n) == \E r \in refreshes : r.n = n

\* C20: every refresh that starts sets loading, eventually finishes when
\* every request settles, and the step that ends it leaves loading cleared,
\* whether the select failed, nothing is held, or the prices were fetched
\* with any mix of failures; a refresh that ends at the select without
\* showing rows of its own leaves the displayed rows as they were unless
\* the store is empty, where the rows may also become the empty list
RefreshFinishes ==
    /\ \A n \in 1..MaxRefreshes : Running(n) ~> ~Running(n)
    /\ [][ /\ started' # started =>
                 loading' /\ \E r \in refreshes' : r.n = started'
           /\ \A r \in refreshes :
                 ~Running(r.n)' =>
                    /\ ~loading'
                    /\ (r.pc = "select" /\ done' = done) =>
                          \/ holdings' = holdings
                          \/ store = << >> /\ holdings' = << >> ]_vars

\* witness of C20: the refresh started on mount has ended on the error
\* path of the select: nothing is running, loading is cleared and no rows
\* were shown although the store holds a row
RefreshEndedOnError ==
    /\ started = 1
    /\ refreshes = {}
    /\ ~loading
    /\ store # << >>
    /\ holdings = << >>
    /\ done = NoDone
    /\ apiKey

====
